---- MODULE Spec2Model ----
(***************************************************************************)
(* Verification model of the mini-exchange-admin authentication layer:     *)
(* the edge middleware (route guard), the RBAC queries, the token codec,   *)
(* the session store with the login form, the protected layout with the    *)
(* navigation it drives, and the HTTP gateway.                             *)
(***************************************************************************)
EXTENDS Integers, Sequences, FiniteSets, TLC

VARIABLES
    envAuthMode,    \* process.env.AUTH_MODE as seen by the running code
    request,        \* the NextRequest handed to the middleware (or NoRequest)
    response,       \* the middleware's answer to `request` (or NoResponse)
    rbacUser,       \* the User handed to an RBAC query
    rbacResult,     \* the last RBAC query and its return value
    hasWindow,      \* typeof window !== 'undefined' (browser) or not (server render)
    nowMs,          \* Date.now()
    localStorage,   \* window.localStorage: the items under access_token, refresh_token
    sessionStorage, \* window.sessionStorage: the same two keys
    location,       \* window.location.href as last assigned by the code ("" = not assigned)
    sessionCookie,  \* the HttpOnly session cookie of BFF mode: "valid" or "none"
    codecResult,    \* the last token query of lib/auth and its return value
    state,          \* the zustand store: user, isLoading, isAuthenticated, error, initialized
    calls,          \* the invocations of the store's async actions, in order of invocation
    lastAction,     \* the store step that ran last
    page,           \* the login page's form state: error, success, the redirect timer
    http,           \* the HTTP gateway call in progress and how it ended
    nav             \* the browser's navigation: the URL being requested, the chain so far

guardVars == <<request, response>>

rbacVars == <<rbacUser, rbacResult>>

browserVars == <<hasWindow, nowMs, localStorage, sessionStorage, location, sessionCookie>>

codecVars == <<codecResult>>

storeVars == <<state, calls, lastAction, page>>

httpVars == <<http>>

navVars == <<nav>>

vars == <<envAuthMode, request, response, rbacUser, rbacResult,
          hasWindow, nowMs, localStorage, sessionStorage, location, sessionCookie,
          codecResult,
          state, calls, lastAction, page, http, nav>>

(***************************************************************************)
(* String helpers (JavaScript String.prototype semantics).                 *)
(***************************************************************************)
startsWith(s, p) == Len(s) >= Len(p) /\ SubSeq(s, 1, Len(p)) = p

endsWith(s, p) == Len(s) >= Len(p) /\ SubSeq(s, Len(s) - Len(p) + 1, Len(s)) = p

charAt(s, i) == IF i >= 1 /\ i <= Len(s) THEN SubSeq(s, i, i) ELSE ""

slice(s, from) == IF from > Len(s) THEN "" ELSE SubSeq(s, from, Len(s))

LowerCase == {"a","b","c","d","e","f","g","h","i","j","k","l","m",
              "n","o","p","q","r","s","t","u","v","w","x","y","z"}

UpperCase == {"A","B","C","D","E","F","G","H","I","J","K","L","M",
              "N","O","P","Q","R","S","T","U","V","W","X","Y","Z"}

(***************************************************************************)
(* src/i18n.ts                                                             *)
(***************************************************************************)
locales == {"en", "zh-TW"}

defaultLocale == "en"

(***************************************************************************)
(* src/middleware.ts: route tables                                         *)
(***************************************************************************)
PROTECTED_ROUTES == {"/dashboard", "/users", "/trading", "/analytics",
                     "/settings", "/reports", "/orders", "/transactions",
                     "/audit", "/markets", "/risk"}

PUBLIC_ROUTES == {"/login", "/forgot-password", "/reset-password"}

API_ROUTES == {"/api", "/_next", "/favicon.ico", "/robots.txt", "/sitemap.xml"}

StaticExtensions == {"png", "jpg", "jpeg", "svg", "gif", "ico", "css", "js",
                     "woff", "woff2", "ttf", "eot"}

(***************************************************************************)
(* Requests and responses of the middleware.  A cookie or header is a      *)
(* record; `exp` is the expiry (seconds) carried inside the credential's   *)
(* payload, which the middleware never decodes.                            *)
(***************************************************************************)
MaxNow == 2

MaxExp == 2

Absent == [present |-> FALSE, value |-> "", hasExp |-> FALSE, exp |-> 0]

EmptyValue == [present |-> TRUE, value |-> "", hasExp |-> FALSE, exp |-> 0]

MockCredential == [present |-> TRUE, value |-> "mock-jwt-token-1700000000000",
                   hasExp |-> FALSE, exp |-> 0]

JwtCredential(e) == [present |-> TRUE, value |-> "hdr.exp" \o ToString(e) \o ".sig",
                     hasExp |-> TRUE, exp |-> e]

AccessCookies == {Absent, EmptyValue, MockCredential} \cup {JwtCredential(e) : e \in 0..MaxExp}

SessionCookies == {Absent, MockCredential, JwtCredential(MaxExp)}

AuthorizationHeaders ==
    {Absent,
     [present |-> TRUE, value |-> "Bearer abc", hasExp |-> FALSE, exp |-> 0],
     [present |-> TRUE, value |-> "Basic mock-jwt-token", hasExp |-> FALSE, exp |-> 0],
     [present |-> TRUE, value |-> "Basic abc", hasExp |-> FALSE, exp |-> 0]}

LocalePaths == {"/en", "/zh-TW"}

Pathnames ==
    {l \o r : l \in LocalePaths, r \in PROTECTED_ROUTES \cup PUBLIC_ROUTES}
    \cup LocalePaths
    \cup {"/", "/en/", "/dashboard", "/login", "/users",
          "/en/users/42", "/zh-TW/orders/7/detail", "/en/dashboards",
          "/en/about", "/en/login/help", "/fr/dashboard", "/english",
          "/en/reports/export.js", "/en/users/a.css", "/en/logo.png",
          "/api/auth/login", "/_next/static/chunk.js", "/favicon.ico"}

AuthModeEnv == {"", "BFF", "DIRECT"}

NoRequest == [pathname |-> "", access_token |-> Absent, session_token |-> Absent,
              authorization |-> Absent, now |-> 0]

NoResponse == [kind |-> "none", path |-> "", redirect |-> ""]

\* NextResponse.next()
NextResponseNext == [kind |-> "next", path |-> "", redirect |-> ""]

\* intlMiddleware(request): the next-intl library takes over (no auth decision)
IntlResponse == [kind |-> "intl", path |-> "", redirect |-> ""]

\* NextResponse.redirect(url); `redirect` is the value of the URL's redirect parameter
NextResponseRedirect(path, redirectParam) ==
    [kind |-> "redirect", path |-> path, redirect |-> redirectParam]

(***************************************************************************)
(* src/middleware.ts: functions                                            *)
(***************************************************************************)
\* process.env.AUTH_MODE || 'BFF'
authModeOf(envValue) == IF envValue = "" THEN "BFF" ELSE envValue

\* x?.value is truthy
truthy(c) == c.present /\ c.value # ""

RECURSIVE includesFrom(_, _, _)
includesFrom(s, p, i) ==
    IF i + Len(p) - 1 > Len(s) THEN FALSE
    ELSE IF SubSeq(s, i, i + Len(p) - 1) = p THEN TRUE
    ELSE includesFrom(s, p, i + 1)

includes(s, p) == includesFrom(s, p, 1)

isAuthenticated(req, envValue) ==
    IF authModeOf(envValue) = "DIRECT"
    THEN req.authorization.present
         /\ (includes(req.authorization.value, "mock-jwt-token")
             \/ startsWith(req.authorization.value, "Bearer "))
    ELSE IF (req.access_token.present
             /\ startsWith(req.access_token.value, "mock-jwt-token"))
            \/ (req.session_token.present
                /\ startsWith(req.session_token.value, "mock-jwt-token"))
    THEN TRUE
    ELSE truthy(req.access_token) \/ truthy(req.session_token)

\* length of the match of /^\/[a-z]{2}(-[A-Z]{2})?/ at the start of pathname (0: no match)
localePrefixLength(pathname) ==
    IF /\ charAt(pathname, 1) = "/"
       /\ charAt(pathname, 2) \in LowerCase
       /\ charAt(pathname, 3) \in LowerCase
    THEN IF /\ charAt(pathname, 4) = "-"
            /\ charAt(pathname, 5) \in UpperCase
            /\ charAt(pathname, 6) \in UpperCase
         THEN 6
         ELSE 3
    ELSE 0

\* pathname.replace(/^\/[a-z]{2}(-[A-Z]{2})?/, '') || '/'
pathWithoutLocale(pathname) ==
    LET rest == slice(pathname, localePrefixLength(pathname) + 1)
    IN  IF rest = "" THEN "/" ELSE rest

isProtectedRoute(pathname) ==
    IF pathWithoutLocale(pathname) = "/" THEN TRUE
    ELSE \E route \in PROTECTED_ROUTES : startsWith(pathWithoutLocale(pathname), route)

\* mutant: the locale prefix is not removed before the lookup
isPublicRoute_NoLocaleStrip(pathname) ==
    \E route \in PUBLIC_ROUTES : startsWith(pathname, route)

isPublicRoute(pathname) ==
    \E route \in PUBLIC_ROUTES : startsWith(pathWithoutLocale(pathname), route)

shouldExclude(pathname) ==
    \/ \E route \in API_ROUTES : startsWith(pathname, route)
    \/ \E ext \in StaticExtensions : endsWith(pathname, "." \o ext)

RECURSIVE segmentEnd(_, _)
\* index of the last character of the segment that starts at index i
segmentEnd(s, i) ==
    IF i > Len(s) \/ charAt(s, i) = "/" THEN i - 1 ELSE segmentEnd(s, i + 1)

\* pathname.split('/')[1]
firstSegment(pathname) ==
    IF segmentEnd(pathname, 2) < 2 THEN "" ELSE SubSeq(pathname, 2, segmentEnd(pathname, 2))

getLocaleFromPathname(pathname) ==
    IF firstSegment(pathname) \in locales THEN firstSegment(pathname) ELSE defaultLocale

\* mutant: the root-path redirect for authenticated users is missing
middleware_NoRootRedirect(req, envValue) ==
    LET pathname == req.pathname
        locale == getLocaleFromPathname(pathname)
        authenticated == isAuthenticated(req, envValue)
    IN  IF shouldExclude(pathname) THEN NextResponseNext
        ELSE IF authModeOf(envValue) = "DIRECT" THEN IntlResponse
        ELSE IF isProtectedRoute(pathname) /\ ~authenticated
            THEN NextResponseRedirect("/" \o locale \o "/login", pathname)
        ELSE IF isPublicRoute(pathname) /\ authenticated
            THEN NextResponseRedirect("/" \o locale \o "/dashboard", "")
        ELSE IntlResponse

middleware(req, envValue) ==
    LET pathname == req.pathname
        locale == getLocaleFromPathname(pathname)
        authenticated == isAuthenticated(req, envValue)
    IN  IF shouldExclude(pathname) THEN NextResponseNext
        ELSE IF authModeOf(envValue) = "DIRECT" THEN IntlResponse
        ELSE IF isProtectedRoute(pathname) /\ ~authenticated
            THEN NextResponseRedirect("/" \o locale \o "/login", pathname)
        ELSE IF isPublicRoute(pathname) /\ authenticated
            THEN NextResponseRedirect("/" \o locale \o "/dashboard", "")
        ELSE IF pathWithoutLocale(pathname) = "/" /\ authenticated
            THEN NextResponseRedirect("/" \o locale \o "/dashboard", "")
        ELSE IntlResponse

(***************************************************************************)
(* The route guard as a state machine: a navigation arrives and the        *)
(* middleware answers it.                                                  *)
(***************************************************************************)
Requests ==
    [pathname : Pathnames, access_token : AccessCookies,
     session_token : SessionCookies, authorization : AuthorizationHeaders,
     now : 0..MaxNow]

(***************************************************************************)
(* src/lib/auth.ts: tokens.  A token string is described by what decodeToken *)
(* looks at: the number of dot-separated segments, whether the middle      *)
(* segment is base64 that atob accepts, what JSON.parse makes of the       *)
(* decoded text, and the fields of the parsed payload.  parts = 0 stands   *)
(* for "no item" (getItem returns null).                                   *)
(***************************************************************************)
MsPerSecond == 1000

NoToken == [parts |-> 0, b64 |-> FALSE, json |-> "invalid", hasExp |-> FALSE, exp |-> 0,
            sub |-> "", roles |-> <<>>]

\* a well-formed JWT whose payload carries exp = e
Jwt(e, sub, roles) == [parts |-> 3, b64 |-> TRUE, json |-> "object", hasExp |-> TRUE, exp |-> e,
                       sub |-> sub, roles |-> roles]

\* the strings a backend (or anything else writing the storage) may have issued
MalformedTokens ==
    {[parts |-> 1, b64 |-> FALSE, json |-> "invalid", hasExp |-> FALSE, exp |-> 0,
      sub |-> "", roles |-> <<>>],
     [parts |-> 3, b64 |-> FALSE, json |-> "invalid", hasExp |-> FALSE, exp |-> 0,
      sub |-> "", roles |-> <<>>],
     [parts |-> 3, b64 |-> TRUE, json |-> "invalid", hasExp |-> FALSE, exp |-> 0,
      sub |-> "", roles |-> <<>>],
     [parts |-> 3, b64 |-> TRUE, json |-> "null", hasExp |-> FALSE, exp |-> 0,
      sub |-> "", roles |-> <<>>]}

\* a decodable token whose payload has no exp field
NoExpToken == [parts |-> 3, b64 |-> TRUE, json |-> "object", hasExp |-> FALSE, exp |-> 0,
               sub |-> "u1", roles |-> <<"admin">>]

JwtTokens == {Jwt(e, "u1", <<"admin">>) : e \in 0..MaxExp}

Tokens == MalformedTokens \cup {NoExpToken} \cup JwtTokens

NoStorage == [access_token |-> NoToken, refresh_token |-> NoToken]

\* decodeToken returning null
NullPayload == [decoded |-> FALSE, hasExp |-> FALSE, exp |-> 0, sub |-> "", roles |-> <<>>]

decodeToken(token, window) ==
    IF ~window THEN NullPayload
    ELSE IF token.parts # 3 THEN NullPayload
    ELSE IF ~token.b64 THEN NullPayload                \* atob throws, caught
    ELSE IF token.json = "invalid" THEN NullPayload    \* JSON.parse throws, caught
    ELSE IF token.json = "null" THEN NullPayload       \* JSON.parse("null") is null
    ELSE [decoded |-> TRUE, hasExp |-> token.hasExp, exp |-> token.exp,
          sub |-> token.sub, roles |-> token.roles]

\* Math.floor(Date.now() / 1000)
nowSeconds(ms) == ms \div MsPerSecond

\* mutant: the comparison is reversed
isTokenExpired_Reversed(token, ms, window) ==
    LET payload == decodeToken(token, window)
    IN  IF ~payload.decoded THEN TRUE
        ELSE payload.hasExp /\ payload.exp > nowSeconds(ms)

\* payload.exp < now; a missing exp is undefined, and undefined < now is false
isTokenExpired(token, ms, window) ==
    LET payload == decodeToken(token, window)
    IN  IF ~payload.decoded THEN TRUE
        ELSE payload.hasExp /\ payload.exp < nowSeconds(ms)

getTokenExpirationTime(token, ms, window) ==
    LET payload == decodeToken(token, window)
    IN  IF ~payload.decoded \/ ~payload.hasExp THEN 0
        ELSE IF payload.exp - nowSeconds(ms) > 0 THEN payload.exp - nowSeconds(ms) ELSE 0

\* a || b on storage items: the first item that is there
firstItem(a, b) == IF a.parts # 0 THEN a ELSE b

\* env.AUTH_MODE (zod default 'BFF')
envAUTH_MODE(envValue) == IF envValue = "" THEN "BFF" ELSE envValue

getClientAuthToken(envValue, window, local, session) ==
    IF ~window THEN NoToken
    ELSE IF envAUTH_MODE(envValue) = "BFF" THEN NoToken
    ELSE firstItem(local.access_token, session.access_token)

NullUser == [id |-> "null", roles |-> <<>>, isActive |-> FALSE]

getUserFromToken(token, window) ==
    LET payload == decodeToken(token, window)
    IN  IF ~payload.decoded THEN NullUser
        ELSE [id |-> payload.sub, roles |-> payload.roles, isActive |-> TRUE]

getCurrentUser(envValue, window, ms, local, session) ==
    LET token == getClientAuthToken(envValue, window, local, session)
    IN  IF token.parts = 0 \/ isTokenExpired(token, ms, window) THEN NullUser
        ELSE getUserFromToken(token, window)

\* lib/auth isAuthenticated()
clientIsAuthenticated(envValue, window, ms, local, session) ==
    IF ~window THEN FALSE
    ELSE LET token == getClientAuthToken(envValue, window, local, session)
         IN  token.parts # 0 /\ ~isTokenExpired(token, ms, window)

NoCodecResult == [fn |-> "none", token |-> NoToken, bool |-> FALSE, user |-> NullUser, num |-> 0]

\* the browser state and the token queries are not in use
BrowserIdle ==
    /\ hasWindow = TRUE
    /\ nowMs = 0
    /\ localStorage = NoStorage
    /\ sessionStorage = NoStorage
    /\ location = ""
    /\ sessionCookie = "none"

CodecIdle == codecResult = NoCodecResult

NoError == [code |-> "null", message |-> ""]

\* the store as created (part_004 lines 62-67)
InitialState == [user |-> NullUser, isLoading |-> FALSE, isAuthenticated |-> FALSE,
                 error |-> NoError, initialized |-> FALSE]

\* the value a login call resolves with, before any has resolved
NoLoginResult == [success |-> FALSE, error |-> NoError]

\* a step of the store: which action, of which invocation, on which backend answer,
\* and the value it returned (login only)
Step(name, id, outcome, code) ==
    [name |-> name, id |-> id, outcome |-> outcome, code |-> code, result |-> NoLoginResult]

NoAction == Step("none", 0, "none", "")

\* the session store is not in use
\* the login form as mounted (login/page.tsx lines 21-26)
NoPage == [error |-> "", success |-> FALSE, timer |-> FALSE]

StoreIdle == state = InitialState /\ calls = <<>> /\ lastAction = NoAction /\ page = NoPage

\* a gateway call before it starts: which client makes it ("http" is HttpClient of
\* lib/http, "api" is ApiClient of lib/api), config.retries, and whether the caller
\* passes its own AbortSignal (ApiClient's RequestOptions.signal)
HttpCall(client, retries, callerSignal) ==
    [pc |-> "idle", client |-> client, retries |-> retries, callerSignal |-> callerSignal,
     method |-> "GET",        \* config.method, GET unless the caller says otherwise
     attempt |-> 0,           \* the loop variable of makeRequest
     fetches |-> 0,           \* fetch() calls made
     timerArmed |-> FALSE,    \* setTimeout(() => controller.abort(), timeout) is pending
     aborted |-> FALSE,       \* controller.signal.aborted
     callerAborted |-> FALSE, \* the caller's signal is aborted
     responses |-> <<>>,      \* how each fetch ended, in order
     delays |-> <<>>,         \* the backoff waits, in ms, in order
     authErrors |-> 0,        \* handleAuthError() calls made
     settled |-> "pending",   \* the returned promise: pending, resolved or rejected
     result |-> ""]           \* the status / error code it resolved with, or the error it rejected with

\* no gateway call has been made
NoHttp == HttpCall("none", 0, FALSE)

HttpIdle == http = NoHttp

\* no navigation is followed: no URL is being requested, no chain was recorded
NoNav == [pending |-> "", chain |-> <<>>, reloads |-> 0]

NavIdle == nav = NoNav

NoUser == [roles |-> <<>>, isActive |-> FALSE]

NoResult == [fn |-> "none", arg |-> <<>>, bool |-> FALSE, perms |-> {}]

\* the RBAC queries are not in use
RbacIdle == rbacUser = NoUser /\ rbacResult = NoResult

\* the middleware is not in use
GuardIdle == request = NoRequest /\ response = NoResponse

InitGuard ==
    /\ envAuthMode \in AuthModeEnv
    /\ request \in Requests
    /\ response = NoResponse
    /\ RbacIdle
    /\ BrowserIdle
    /\ CodecIdle
    /\ StoreIdle
    /\ HttpIdle
    /\ NavIdle

\* the middleware runs once on the incoming request
Middleware ==
    /\ response = NoResponse
    /\ response' = middleware(request, envAuthMode)
    /\ UNCHANGED <<envAuthMode, request, rbacVars, browserVars, codecVars, storeVars, httpVars, navVars>>

NextGuard == Middleware

SpecGuard == InitGuard /\ [][NextGuard]_vars

(***************************************************************************)
(* Route guard properties                                                  *)
(***************************************************************************)
Answered == response.kind # "none"

BffMode == authModeOf(envAuthMode) = "BFF"

NoAuthCookie == ~request.access_token.present /\ ~request.session_token.present

\* a cookie carrying a (non-empty) token is present
HasAuthCookie == truthy(request.access_token) \/ truthy(request.session_token)

PassedThrough == response.kind \in {"next", "intl"}

\* the part of the pathname after a supported locale prefix l
AfterLocale(l) == slice(request.pathname, Len("/" \o l) + 1)

\* the pathname is /<l> followed by a route with a protected prefix, or is the root of l
ProtectedUnder(l) ==
    /\ startsWith(request.pathname, "/" \o l)
    /\ \/ AfterLocale(l) \in {"", "/"}
       \/ \E route \in PROTECTED_ROUTES : startsWith(AfterLocale(l), route)

\* C1: in BFF mode every request to /<locale> + a protected-prefixed route (or the
\* locale root) that carries neither auth cookie is answered with a redirect to
\* /<locale>/login whose redirect parameter is the original pathname.
C1_ProtectedUnauthRedirectsToLogin ==
    \A l \in locales :
        (Answered /\ BffMode /\ NoAuthCookie /\ ProtectedUnder(l))
            => response = NextResponseRedirect("/" \o l \o "/login", request.pathname)

\* C2: the un-prefixed path /dashboard, unauthenticated, is classified as protected
\* and redirected to the login path with redirect=/dashboard.
C2_BareDashboardRedirectsToLogin ==
    (Answered /\ BffMode /\ NoAuthCookie /\ request.pathname = "/dashboard")
        => /\ isProtectedRoute(request.pathname)
           /\ response.kind = "redirect"
           /\ endsWith(response.path, "/login")
           /\ response.redirect = "/dashboard"

\* C3: in BFF mode a request to /<locale>/login, /<locale>/forgot-password or
\* /<locale>/reset-password that carries an access_token or session_token cookie
\* holding a (non-empty) token is redirected to /<locale>/dashboard and never
\* handed on to the public page.
C3_PublicAuthenticatedRedirectsToDashboard ==
    \A l \in locales : \A route \in PUBLIC_ROUTES :
        (Answered /\ BffMode /\ HasAuthCookie /\ request.pathname = "/" \o l \o route)
            => response = NextResponseRedirect("/" \o l \o "/dashboard", "")

C3_Witness ==
    /\ Answered /\ BffMode /\ HasAuthCookie
    /\ request.pathname = "/zh-TW/forgot-password"
    /\ response.kind = "redirect"

GuardAuthenticated == isAuthenticated(request, envAuthMode)

GuardRoot == pathWithoutLocale(request.pathname) = "/"

\* C4 (as claimed): every combination other than (protected, unauthenticated) and
\* (public, authenticated) passes through the guard unchanged.
C4_OnlyTwoCombinationsRedirect ==
    (Answered /\ ~(isProtectedRoute(request.pathname) /\ ~GuardAuthenticated)
              /\ ~(isPublicRoute(request.pathname) /\ GuardAuthenticated))
        => PassedThrough

\* C4 (amended): every combination other than (protected, unauthenticated),
\* (public, authenticated) and (locale root, authenticated) passes through; in BFF
\* mode an authenticated request to the locale root is redirected to /<locale>/dashboard.
C4_AllButThreeCombinationsPass ==
    /\ (Answered /\ ~(isProtectedRoute(request.pathname) /\ ~GuardAuthenticated)
                 /\ ~(isPublicRoute(request.pathname) /\ GuardAuthenticated)
                 /\ ~(GuardRoot /\ GuardAuthenticated))
           => PassedThrough
    /\ (Answered /\ BffMode /\ GuardRoot /\ GuardAuthenticated)
           => response = NextResponseRedirect(
                             "/" \o getLocaleFromPathname(request.pathname) \o "/dashboard", "")

C4_Witness ==
    /\ Answered /\ BffMode /\ HasAuthCookie
    /\ request.pathname = "/zh-TW"
    /\ response = NextResponseRedirect("/zh-TW/dashboard", "")

\* the only credential of the request is a token whose expiry has passed
OnlyExpiredCredential ==
    /\ request.access_token.present /\ request.access_token.hasExp
    /\ request.access_token.exp < request.now
    /\ ~request.session_token.present

\* C5: a navigation to a protected path with an expired session credential is
\* treated as unauthenticated and redirected to login.
C5_ExpiredCredentialRedirectsToLogin ==
    (Answered /\ BffMode /\ OnlyExpiredCredential
              /\ isProtectedRoute(request.pathname) /\ ~shouldExclude(request.pathname))
        => (response.kind = "redirect" /\ endsWith(response.path, "/login"))

(***************************************************************************)
(* src/lib/rbac.ts                                                         *)
(***************************************************************************)
UserRole == {"super_admin", "admin", "operator", "auditor", "viewer"}

Permission ==
    {"view_users", "create_user", "update_user", "delete_user", "manage_user_roles",
     "view_orders", "cancel_order", "refund_order",
     "view_markets", "create_market", "update_market", "delete_market", "manage_fees",
     "view_risk_data", "freeze_account", "unfreeze_account", "approve_kyc", "reject_kyc",
     "view_settings", "update_settings", "manage_announcements",
     "view_reports", "export_data",
     "manage_system", "view_logs", "backup_system"}

AdminPermissions ==
    {"view_users", "create_user", "update_user", "delete_user",
     "view_orders", "cancel_order", "refund_order",
     "view_markets", "create_market", "update_market", "delete_market", "manage_fees",
     "view_risk_data", "freeze_account", "unfreeze_account", "approve_kyc", "reject_kyc",
     "view_settings", "update_settings", "manage_announcements",
     "view_reports", "export_data",
     "view_logs"}

OperatorPermissions ==
    {"view_users", "update_user",
     "view_orders", "cancel_order",
     "view_markets", "update_market", "manage_fees",
     "view_risk_data", "approve_kyc", "reject_kyc",
     "view_settings",
     "view_reports"}

AuditorPermissions ==
    {"view_users", "view_orders", "view_markets", "view_risk_data",
     "view_settings", "view_reports", "export_data", "view_logs"}

ViewerPermissions == {"view_users", "view_orders", "view_markets", "view_reports"}

\* mutant: the super-admin list is hand-maintained and misses the newer permissions
rolePermissions_SuperAdminDrift(role) ==
    CASE role = "super_admin" -> AdminPermissions
      [] role = "admin" -> AdminPermissions
      [] role = "operator" -> OperatorPermissions
      [] role = "auditor" -> AuditorPermissions
      [] role = "viewer" -> ViewerPermissions
      [] OTHER -> {}

\* rolePermissions[role]; a tag that is no key of the table has no list (undefined)
rolePermissions(role) ==
    CASE role = "super_admin" -> Permission
      [] role = "admin" -> AdminPermissions
      [] role = "operator" -> OperatorPermissions
      [] role = "auditor" -> AuditorPermissions
      [] role = "viewer" -> ViewerPermissions
      [] OTHER -> {}

\* mutant: the isActive test is missing
hasPermission_IgnoresActive(user, permission) ==
    \E i \in 1..Len(user.roles) : permission \in rolePermissions(user.roles[i])

hasPermission(user, permission) ==
    IF ~user.isActive THEN FALSE
    ELSE \E i \in 1..Len(user.roles) : permission \in rolePermissions(user.roles[i])

hasAnyPermission(user, permissions) ==
    \E permission \in permissions : hasPermission(user, permission)

hasAllPermissions(user, permissions) ==
    \A permission \in permissions : hasPermission(user, permission)

hasRole(user, role) ==
    user.isActive /\ \E i \in 1..Len(user.roles) : user.roles[i] = role

hasAnyRole(user, roles) ==
    user.isActive /\ \E role \in roles : \E i \in 1..Len(user.roles) : user.roles[i] = role

getUserPermissions(user) ==
    IF ~user.isActive THEN {}
    ELSE UNION {rolePermissions(user.roles[i]) : i \in 1..Len(user.roles)}

isAdmin(user) == hasAnyRole(user, {"super_admin", "admin"})

isSuperAdmin(user) == hasRole(user, "super_admin")

canManageUsers(user) ==
    hasAnyPermission(user, {"create_user", "update_user", "delete_user", "manage_user_roles"})

Resources == {"users", "orders", "markets", "settings"}

Actions == {"view", "create", "update", "delete"}

\* resourcePermissions[resource]?.[action] for a resource of the table
resourcePermissions(resource, action) ==
    CASE resource = "users" ->
            (CASE action = "view" -> "view_users" [] action = "create" -> "create_user"
               [] action = "update" -> "update_user" [] OTHER -> "delete_user")
      [] resource = "orders" ->
            (CASE action = "view" -> "view_orders" [] action = "create" -> "cancel_order"
               [] action = "update" -> "cancel_order" [] OTHER -> "refund_order")
      [] resource = "markets" ->
            (CASE action = "view" -> "view_markets" [] action = "create" -> "create_market"
               [] action = "update" -> "update_market" [] OTHER -> "delete_market")
      [] OTHER ->
            (CASE action = "view" -> "view_settings" [] OTHER -> "update_settings")

canAccessResource(user, resource, action) ==
    IF resource \in Resources /\ action \in Actions
    THEN hasPermission(user, resourcePermissions(resource, action))
    ELSE FALSE

(***************************************************************************)
(* RBAC queries as a state machine: a user is given and one query is       *)
(* evaluated on it.                                                        *)
(***************************************************************************)
MaxRoles == 2

\* role tags a user record can carry: the enumeration and a tag outside it
RoleTags == UserRole \cup {"trader"}

RoleLists == UNION {[1..n -> RoleTags] : n \in 0..MaxRoles}

Users == [roles : RoleLists, isActive : BOOLEAN]

\* argument lists tried for hasAnyPermission / hasAllPermissions
PermissionLists ==
    {{}, Permission, {"create_user", "update_user", "delete_user", "manage_user_roles"}}
    \cup {{q} : q \in Permission}

RoleArgLists == {{}, UserRole, {"super_admin", "admin"}} \cup {{r} : r \in RoleTags}

ResourceArgs == Resources \cup {"reports"}

BoolResult(fn, arg, b) == [fn |-> fn, arg |-> arg, bool |-> b, perms |-> {}]

InitRbac ==
    /\ envAuthMode = ""
    /\ GuardIdle
    /\ BrowserIdle
    /\ CodecIdle
    /\ rbacUser \in Users
    /\ rbacResult = NoResult
    /\ StoreIdle
    /\ HttpIdle
    /\ NavIdle

Idle ==
    /\ rbacResult = NoResult
    /\ UNCHANGED <<envAuthMode, guardVars, rbacUser, browserVars, codecVars, storeVars, httpVars, navVars>>

\* usePermission(permission) of hooks/use-auth.ts for the store's user: the callback
\* of roles.some() is the placeholder `true`
usePermission(user, permission) ==
    IF user = NoUser THEN FALSE
    ELSE \E i \in 1..Len(user.roles) : TRUE

\* usePermission(permission) of the enhanced store (part_004 lines 320-336)
usePermissionEnhanced(user, authenticated, permission) ==
    IF ~authenticated \/ user = NoUser THEN FALSE
    ELSE \E i \in 1..Len(user.roles) :
            user.roles[i] = "super_admin" \/ user.roles[i] = permission

HasPermission ==
    \E q \in Permission :
        Idle /\ rbacResult' = BoolResult("hasPermission", <<q>>, hasPermission(rbacUser, q))

HasAnyPermission ==
    \E ps \in PermissionLists :
        Idle /\ rbacResult' = BoolResult("hasAnyPermission", <<ps>>, hasAnyPermission(rbacUser, ps))

HasAllPermissions ==
    \E ps \in PermissionLists :
        Idle /\ rbacResult' = BoolResult("hasAllPermissions", <<ps>>, hasAllPermissions(rbacUser, ps))

HasRole ==
    \E r \in RoleTags :
        Idle /\ rbacResult' = BoolResult("hasRole", <<r>>, hasRole(rbacUser, r))

HasAnyRole ==
    \E rs \in RoleArgLists :
        Idle /\ rbacResult' = BoolResult("hasAnyRole", <<rs>>, hasAnyRole(rbacUser, rs))

IsAdmin == Idle /\ rbacResult' = BoolResult("isAdmin", <<>>, isAdmin(rbacUser))

IsSuperAdmin == Idle /\ rbacResult' = BoolResult("isSuperAdmin", <<>>, isSuperAdmin(rbacUser))

CanManageUsers == Idle /\ rbacResult' = BoolResult("canManageUsers", <<>>, canManageUsers(rbacUser))

CanAccessResource ==
    \E res \in ResourceArgs : \E act \in Actions :
        Idle /\ rbacResult' = BoolResult("canAccessResource", <<res, act>>,
                                         canAccessResource(rbacUser, res, act))

\* a component renders usePermission(q) while rbacUser is signed in
UsePermission ==
    \E q \in Permission :
        Idle /\ rbacResult' = BoolResult("usePermission", <<q>>, usePermission(rbacUser, q))

UsePermissionEnhanced ==
    \E q \in Permission :
        Idle /\ rbacResult' = BoolResult("usePermissionEnhanced", <<q>>,
                                         usePermissionEnhanced(rbacUser, TRUE, q))

GetUserPermissions ==
    Idle /\ rbacResult' = [fn |-> "getUserPermissions", arg |-> <<>>, bool |-> FALSE,
                           perms |-> getUserPermissions(rbacUser)]

NextRbac ==
    \/ HasPermission
    \/ HasAnyPermission
    \/ HasAllPermissions
    \/ HasRole
    \/ HasAnyRole
    \/ IsAdmin
    \/ IsSuperAdmin
    \/ CanManageUsers
    \/ CanAccessResource
    \/ GetUserPermissions
    \/ UsePermission
    \/ UsePermissionEnhanced

SpecRbac == InitRbac /\ [][NextRbac]_vars

(***************************************************************************)
(* RBAC properties                                                         *)
(***************************************************************************)
GrantingQueries ==
    {"hasPermission", "hasAnyPermission", "canAccessResource",
     "hasRole", "hasAnyRole", "isAdmin", "isSuperAdmin"}

\* C6: for an inactive user, whatever role tags are stored, hasPermission,
\* hasAnyPermission, canAccessResource, hasRole, hasAnyRole, isAdmin and
\* isSuperAdmin return false and getUserPermissions returns the empty set.
C6_InactiveUserGetsNothing ==
    ~rbacUser.isActive =>
        /\ rbacResult.fn \in GrantingQueries => rbacResult.bool = FALSE
        /\ rbacResult.fn = "getUserPermissions" => rbacResult.perms = {}

C6_Witness ==
    /\ ~rbacUser.isActive
    /\ rbacUser.roles = <<"super_admin", "admin">>
    /\ rbacResult.fn = "hasPermission"
    /\ rbacResult.arg = <<"manage_system">>

HasSuperAdminTag == \E i \in 1..Len(rbacUser.roles) : rbacUser.roles[i] = "super_admin"

\* C7 (as claimed): for every user whose roles include super-admin, whatever other
\* roles and flags it carries, getUserPermissions is the full permission universe.
C7_SuperAdminHasAllPermissions ==
    (rbacResult.fn = "getUserPermissions" /\ HasSuperAdminTag)
        => rbacResult.perms = Permission

\* C7 (amended): for every active user whose roles include super-admin,
\* getUserPermissions is exactly the Permission enumeration; for an inactive one
\* it is empty.
C7_ActiveSuperAdminHasAllPermissions ==
    (rbacResult.fn = "getUserPermissions" /\ HasSuperAdminTag)
        => rbacResult.perms = (IF rbacUser.isActive THEN Permission ELSE {})

C7_Witness ==
    /\ rbacResult.fn = "getUserPermissions"
    /\ rbacUser.isActive
    /\ rbacUser.roles = <<"viewer", "super_admin">>
    /\ rbacResult.perms = Permission

(***************************************************************************)
(* Token queries as a state machine: the browser holds some token in one   *)
(* of its two stores at some time, and one query of lib/auth is evaluated. *)
(***************************************************************************)
MaxTicks == 5

\* clock readings, in steps of half a second
ClockValues == {k * 500 : k \in 0..MaxTicks}

\* a token sits in at most one of the two stores (setClientAuthToken, lines 113-119)
StoragePairs ==
    {<<NoStorage, NoStorage>>}
    \cup {<<[access_token |-> t, refresh_token |-> NoToken], NoStorage>> : t \in Tokens}
    \cup {<<NoStorage, [access_token |-> t, refresh_token |-> NoToken]>> : t \in Tokens}

InitCodec ==
    /\ envAuthMode \in AuthModeEnv
    /\ GuardIdle
    /\ RbacIdle
    /\ hasWindow \in BOOLEAN
    /\ nowMs \in ClockValues
    /\ \E pair \in StoragePairs : localStorage = pair[1] /\ sessionStorage = pair[2]
    /\ location = ""
    /\ sessionCookie = "none"
    /\ codecResult = NoCodecResult
    /\ StoreIdle
    /\ HttpIdle
    /\ NavIdle

CodecReady ==
    /\ codecResult = NoCodecResult
    /\ UNCHANGED <<envAuthMode, guardVars, rbacVars, browserVars, storeVars, httpVars, navVars>>

StoredToken == firstItem(localStorage.access_token, sessionStorage.access_token)

DecodeToken ==
    \E t \in Tokens :
        /\ CodecReady
        /\ codecResult' = [fn |-> "decodeToken", token |-> t,
                           bool |-> decodeToken(t, hasWindow).decoded,
                           user |-> NullUser, num |-> 0]

IsTokenExpired ==
    \E t \in Tokens :
        /\ CodecReady
        /\ codecResult' = [fn |-> "isTokenExpired", token |-> t,
                           bool |-> isTokenExpired(t, nowMs, hasWindow),
                           user |-> NullUser, num |-> 0]

GetTokenExpirationTime ==
    \E t \in Tokens :
        /\ CodecReady
        /\ codecResult' = [fn |-> "getTokenExpirationTime", token |-> t, bool |-> FALSE,
                           user |-> NullUser,
                           num |-> getTokenExpirationTime(t, nowMs, hasWindow)]

IsAuthenticated ==
    /\ CodecReady
    /\ codecResult' = [fn |-> "isAuthenticated", token |-> StoredToken,
                       bool |-> clientIsAuthenticated(envAuthMode, hasWindow, nowMs,
                                                      localStorage, sessionStorage),
                       user |-> NullUser, num |-> 0]

GetCurrentUser ==
    /\ CodecReady
    /\ codecResult' = [fn |-> "getCurrentUser", token |-> StoredToken, bool |-> FALSE,
                       user |-> getCurrentUser(envAuthMode, hasWindow, nowMs,
                                               localStorage, sessionStorage),
                       num |-> 0]

NextCodec ==
    \/ DecodeToken
    \/ IsTokenExpired
    \/ GetTokenExpirationTime
    \/ IsAuthenticated
    \/ GetCurrentUser

SpecCodec == InitCodec /\ [][NextCodec]_vars

(***************************************************************************)
(* Token codec properties                                                  *)
(***************************************************************************)
\* the token of the last query decodes in this environment
Decodable == decodeToken(codecResult.token, hasWindow).decoded

\* C8: for every decodable token, isTokenExpired returns true when the payload's
\* exp is earlier than the current time in whole seconds, and false when exp is
\* later than the current time.
C8_ExpiredIffExpInPast ==
    (codecResult.fn = "isTokenExpired" /\ Decodable /\ codecResult.token.hasExp)
        => /\ codecResult.token.exp * MsPerSecond + MsPerSecond <= nowMs => codecResult.bool = TRUE
           /\ codecResult.token.exp * MsPerSecond > nowMs => codecResult.bool = FALSE

C8_Witness ==
    /\ codecResult.fn = "isTokenExpired" /\ Decodable /\ codecResult.token.hasExp
    /\ codecResult.token.exp = 1
    /\ nowMs = 2 * MsPerSecond
    /\ codecResult.bool = TRUE

\* C9: whenever the current time in seconds is greater than or equal to the stored
\* token's exp (the instant now = exp included), isAuthenticated() is false and
\* getCurrentUser() yields no user.
C9_UnusableFromExpiryOn ==
    (codecResult.token.parts # 0 /\ codecResult.token.hasExp
        /\ nowSeconds(nowMs) >= codecResult.token.exp)
        => /\ codecResult.fn = "isAuthenticated" => codecResult.bool = FALSE
           /\ codecResult.fn = "getCurrentUser" => codecResult.user = NullUser

(***************************************************************************)
(* The session store (useAuthStore): login, logout, setUser, clearError.   *)
(* An async action runs up to its await in one step and resumes in a later *)
(* step when the backend answers; the answer is the backend's choice.      *)
(***************************************************************************)
MaxCalls == 2

\* logout requests (lib/auth logout's fetch) that may be in flight at once
MaxLogoutFetches == 1

\* users a backend login can return
BackendUsers ==
    {[id |-> "u1", roles |-> <<"admin">>, isActive |-> TRUE],
     [id |-> "u2", roles |-> <<"viewer">>, isActive |-> TRUE]}

\* codes of an error result; "" is an error result that carries no code
BackendErrorCodes == {"", "LOGIN_FAILED", "HTTP_ERROR"}

\* what `await API.auth.login(...)` can produce
LoginOutcomes ==
    {[kind |-> "error", code |-> c, user |-> NullUser, token |-> NoToken] : c \in BackendErrorCodes}
    \cup {[kind |-> "nobody", code |-> "", user |-> NullUser, token |-> NoToken]}
    \cup {[kind |-> "throw", code |-> "", user |-> NullUser, token |-> NoToken]}
    \cup {[kind |-> "success", code |-> "", user |-> u, token |-> Jwt(MaxExp, u.id, u.roles)]
            : u \in BackendUsers}

\* a success answer whose JSON body is falsy but not null ('', 0, false): handleResponse
\* passes it on as body (types.ts lines 376-380); a null body makes it throw instead
EmptyBody == [id |-> "", roles |-> <<>>, isActive |-> FALSE]

\* what `await API.auth.getCurrentUser()` can produce
MeOutcomes ==
    {[kind |-> "error", code |-> "HTTP_ERROR", user |-> NullUser, token |-> NoToken],
     [kind |-> "nobody", code |-> "", user |-> EmptyBody, token |-> NoToken],
     [kind |-> "throw", code |-> "", user |-> NullUser, token |-> NoToken]}
    \cup {[kind |-> "success", code |-> "", user |-> u, token |-> NoToken] : u \in BackendUsers}

\* zustand set(partial): the given fields replace the old ones
set(old, partial) == [f \in DOMAIN old |-> IF f \in DOMAIN partial THEN partial[f] ELSE old[f]]

\* localStorage.setItem / removeItem on one key
setItem(store, key, value) == [store EXCEPT ![key] = value]

removeItem(store, key) == [store EXCEPT ![key] = NoToken]

\* mutant: the other store is not emptied
setClientAuthToken_KeepsOther(envValue, window, local, session, token, remember) ==
    IF ~window THEN <<local, session>>
    ELSE IF envAUTH_MODE(envValue) = "DIRECT"
    THEN IF remember
         THEN <<setItem(local, "access_token", token), session>>
         ELSE <<local, setItem(session, "access_token", token)>>
    ELSE <<local, session>>

\* setClientAuthToken(token, remember): the pair <<localStorage, sessionStorage>> afterwards
setClientAuthToken(envValue, window, local, session, token, remember) ==
    IF ~window THEN <<local, session>>
    ELSE IF envAUTH_MODE(envValue) = "DIRECT"
    THEN IF remember
         THEN <<setItem(local, "access_token", token), removeItem(session, "access_token")>>
         ELSE <<removeItem(local, "access_token"), setItem(session, "access_token", token)>>
    ELSE <<local, session>>

\* mutant: refresh_token is left behind
removeClientAuthToken_AccessOnly(window, local, session) ==
    IF ~window THEN <<local, session>>
    ELSE <<removeItem(local, "access_token"), removeItem(session, "access_token")>>

\* removeClientAuthToken(): the pair <<localStorage, sessionStorage>> afterwards
removeClientAuthToken(window, local, session) ==
    IF ~window THEN <<local, session>>
    ELSE <<removeItem(removeItem(local, "access_token"), "refresh_token"),
           removeItem(removeItem(session, "access_token"), "refresh_token")>>

\* the AuthError login builds from an error result
loginError(outcome) ==
    CASE outcome.kind = "error" ->
            [code |-> IF outcome.code = "" THEN "LOGIN_FAILED" ELSE outcome.code,
             message |-> "Login failed"]
      [] outcome.kind = "nobody" ->
            [code |-> "NO_DATA", message |-> "No data received from login"]
      [] OTHER ->
            [code |-> "NETWORK_ERROR", message |-> "Network error occurred"]

\* the store after a failed login (lines 86, 95, 118)
loginFailureState(old, outcome) ==
    set(old, [isLoading |-> FALSE, error |-> loginError(outcome)])

\* the store after a successful login (lines 105-110)
loginSuccessState(old, outcome) ==
    set(old, [user |-> outcome.user, isAuthenticated |-> TRUE,
              isLoading |-> FALSE, error |-> NoError])

\* the LoginResult a login call resolves with (lines 87, 96, 112, 119)
loginResult(outcome) ==
    IF outcome.kind = "success" THEN [success |-> TRUE, error |-> NoError]
    ELSE [success |-> FALSE, error |-> loginError(outcome)]

\* whether the promise of login rejects: the try/catch of lines 77-120 covers the whole body
loginRejects(outcome) == FALSE

\* how many of the invocations so far are of one of the given actions
RECURSIVE countOps(_, _)
countOps(cs, ops) ==
    IF cs = <<>> THEN 0
    ELSE (IF Head(cs).op \in ops THEN 1 ELSE 0) + countOps(Tail(cs), ops)

StoreCalls == countOps(calls, {"login", "initialize", "refreshUser"})

LogoutFetches == countOps(calls, {"authLogout"})

\* an invocation of an async store action, suspended at its await; `stored` is the
\* local of initialize (lines 211-213)
Call(op, remember, viaForm) ==
    [op |-> op, pc |-> "awaiting", remember |-> remember, success |-> FALSE,
     viaForm |-> viaForm, stored |-> NoToken]

\* handleSubmit after `await login(...)` (login/page.tsx lines 43-52): the resolved value
\* is not looked at; only a rejection reaches setError
handleSubmitResume(form, rejected, message) ==
    IF rejected THEN [form EXCEPT !.error = message]
    ELSE [form EXCEPT !.success = TRUE, !.timer = TRUE]

\* tokens some earlier page load may have left in the storage
LeftOverStorage ==
    {<<NoStorage, NoStorage>>,
     <<[access_token |-> Jwt(1, "u1", <<"admin">>), refresh_token |-> NoToken], NoStorage>>,
     <<NoStorage, [access_token |-> Jwt(MaxExp, "u1", <<"admin">>),
                   refresh_token |-> Jwt(MaxExp, "u1", <<"admin">>)]>>,
     <<[access_token |-> CHOOSE t \in MalformedTokens : t.parts = 1, refresh_token |-> NoToken],
       NoStorage>>}

\* a time at which no stored token has expired, and one at which the earlier has
StoreClock == {0, MaxExp * MsPerSecond}

InitStore ==
    /\ envAuthMode \in AuthModeEnv
    /\ GuardIdle
    /\ RbacIdle
    /\ CodecIdle
    /\ HttpIdle
    /\ NavIdle
    /\ hasWindow = TRUE
    /\ nowMs \in StoreClock
    /\ \E pair \in LeftOverStorage : localStorage = pair[1] /\ sessionStorage = pair[2]
    /\ location = ""
    /\ sessionCookie = "none"
    /\ StoreIdle

StoreFrame ==
    UNCHANGED <<envAuthMode, guardVars, rbacVars, codecVars, httpVars, navVars, hasWindow, nowMs,
                sessionCookie>>

\* login(...), lines 70-78: up to the await
Login ==
    \E remember \in BOOLEAN :
        /\ StoreCalls < MaxCalls
        /\ state' = set(state, [isLoading |-> TRUE, error |-> NoError])
        /\ calls' = Append(calls, Call("login", remember, FALSE))
        /\ lastAction' = Step("login.start", Len(calls) + 1, "none", "")
        /\ UNCHANGED <<localStorage, sessionStorage, location, page>>
        /\ StoreFrame

\* handleSubmit (login/page.tsx lines 35-43): the form is submitted; runs up to the
\* await inside login
HandleSubmit ==
    \E remember \in BOOLEAN : \E fieldsValid \in BOOLEAN :
        /\ StoreCalls < MaxCalls
        /\ page' = [page EXCEPT !.error = "", !.success = FALSE]
        /\ IF fieldsValid /\ ~state.isLoading
           THEN /\ state' = set(state, [isLoading |-> TRUE, error |-> NoError])
                /\ calls' = Append(calls, Call("login", remember, TRUE))
                /\ lastAction' = Step("login.start", Len(calls) + 1, "none", "")
           ELSE /\ lastAction' = Step("submit.rejected", 0, "none", "")
                /\ UNCHANGED <<state, calls>>
        /\ UNCHANGED <<localStorage, sessionStorage, location>>
        /\ StoreFrame

\* login(...), lines 80-120: the backend call settles and the action returns; a call
\* made by the form resumes handleSubmit
LoginSettle ==
    \E i \in 1..Len(calls) : \E outcome \in LoginOutcomes :
        /\ calls[i].op = "login" /\ calls[i].pc = "awaiting"
        /\ IF outcome.kind = "success"
           THEN /\ state' = loginSuccessState(state, outcome)
                /\ localStorage' = setClientAuthToken(envAuthMode, hasWindow, localStorage,
                                       sessionStorage, outcome.token, calls[i].remember)[1]
                /\ sessionStorage' = setClientAuthToken(envAuthMode, hasWindow, localStorage,
                                         sessionStorage, outcome.token, calls[i].remember)[2]
           ELSE /\ state' = loginFailureState(state, outcome)
                /\ UNCHANGED <<localStorage, sessionStorage>>
        /\ calls' = [calls EXCEPT ![i] = [@ EXCEPT !.pc = "returned",
                                                   !.success = (outcome.kind = "success")]]
        /\ page' = IF calls[i].viaForm
                   THEN handleSubmitResume(page, loginRejects(outcome),
                                           loginError(outcome).message)
                   ELSE page
        /\ lastAction' = [Step("login.settle", i, outcome.kind, outcome.code)
                              EXCEPT !.result = loginResult(outcome)]
        /\ UNCHANGED location
        /\ StoreFrame

\* the timer of login/page.tsx lines 46-49 fires (the page is mounted under the default locale)
RedirectTimer ==
    /\ page.timer
    /\ page' = [page EXCEPT !.timer = FALSE]
    /\ location' = "/" \o defaultLocale \o "/dashboard"
    /\ lastAction' = Step("redirect", 0, "none", "")
    /\ UNCHANGED <<state, calls, localStorage, sessionStorage>>
    /\ StoreFrame

\* mutant: the user is not reset
logoutState_KeepsUser(old) ==
    set(old, [isAuthenticated |-> FALSE, isLoading |-> FALSE, error |-> NoError])

\* the store after logout's finally block (lines 135-140)
logoutState(old) ==
    set(old, [user |-> NullUser, isAuthenticated |-> FALSE, isLoading |-> FALSE,
              error |-> NoError])

\* the step before was a login call resolving with success
LoginJustSucceeded == lastAction.name = "login.settle" /\ lastAction.outcome = "success"

\* lib/auth logout() reaches `await fetch('/api/auth/logout')` (auth.ts lines 205-207)
authLogoutAwaits(envValue, window) == window /\ envAUTH_MODE(envValue) = "BFF"

\* logout(), lines 124-142, with the synchronous part of lib/auth logout() (auth.ts
\* lines 198-217), which the store calls without awaiting: in BFF mode it suspends at
\* its fetch, otherwise it assigns window.location.href before returning
Logout ==
    /\ authLogoutAwaits(envAuthMode, hasWindow) => LogoutFetches < MaxLogoutFetches
    /\ state' = logoutState(state)
    /\ localStorage' = removeClientAuthToken(hasWindow, localStorage, sessionStorage)[1]
    /\ sessionStorage' = removeClientAuthToken(hasWindow, localStorage, sessionStorage)[2]
    /\ calls' = IF authLogoutAwaits(envAuthMode, hasWindow)
                THEN Append(calls, Call("authLogout", FALSE, FALSE))
                ELSE calls
    /\ location' = IF hasWindow /\ ~authLogoutAwaits(envAuthMode, hasWindow)
                   THEN "/login" ELSE location
    /\ lastAction' = Step("logout", 0, IF LoginJustSucceeded THEN "after-login" ELSE "none", "")
    /\ UNCHANGED page
    /\ StoreFrame

\* how the fetch of lib/auth logout() can end
LogoutFetchOutcomes == {"ok", "http-error", "throw"}

\* lib/auth logout(), auth.ts lines 207-217: the fetch settles, whatever its answer
AuthLogoutSettle ==
    \E i \in 1..Len(calls) : \E outcome \in LogoutFetchOutcomes :
        /\ calls[i].op = "authLogout" /\ calls[i].pc = "awaiting"
        /\ calls' = [calls EXCEPT ![i] = [@ EXCEPT !.pc = "returned"]]
        /\ location' = "/login"
        /\ lastAction' = Step("authLogout.settle", i, outcome,
                               IF lastAction.name = "logout" THEN "after-logout" ELSE "")
        /\ UNCHANGED <<state, page, localStorage, sessionStorage>>
        /\ StoreFrame

\* the token initialize reads (lines 211-213)
storedToken(local, session) == firstItem(local.access_token, session.access_token)

\* the store when initialize finds no valid authentication (lines 247-252, 255-260)
initializeNoAuthState(old) ==
    set(old, [user |-> NullUser, isAuthenticated |-> FALSE, initialized |-> TRUE,
              isLoading |-> FALSE])

\* the store when initialize finds a user (lines 220-225, 235-240)
initializeAuthState(old, user) ==
    set(old, [user |-> user, isAuthenticated |-> TRUE, initialized |-> TRUE,
              isLoading |-> FALSE])

\* initialize(), lines 205-218 and 245-252: up to the await, or to the end when the
\* stored token is missing or expired; `awaits` tells which
initializeSync(old, window, ms, local, session) ==
    IF ~window
    THEN [awaits |-> FALSE, state |-> old, local |-> local, session |-> session]
    ELSE IF storedToken(local, session).parts # 0
            /\ ~isTokenExpired(storedToken(local, session), ms, window)
    THEN [awaits |-> TRUE, state |-> set(old, [isLoading |-> TRUE]),
          local |-> local, session |-> session]
    ELSE [awaits |-> FALSE,
          state |-> initializeNoAuthState(set(old, [isLoading |-> TRUE])),
          local |-> removeClientAuthToken(window, local, session)[1],
          session |-> removeClientAuthToken(window, local, session)[2]]

\* initialize(), lines 218-252: from the answer of the current-user call to the end
initializeResume(old, envValue, window, ms, local, session, outcome) ==
    IF outcome.kind = "success"
    THEN [state |-> initializeAuthState(old, outcome.user), local |-> local, session |-> session]
    ELSE IF getCurrentUser(envValue, window, ms, local, session) # NullUser
    THEN [state |-> initializeAuthState(old, getCurrentUser(envValue, window, ms, local, session)),
          local |-> local, session |-> session]
    ELSE [state |-> initializeNoAuthState(old),
          local |-> removeClientAuthToken(window, local, session)[1],
          session |-> removeClientAuthToken(window, local, session)[2]]

\* initialize() is invoked
Initialize ==
    LET run == initializeSync(state, hasWindow, nowMs, localStorage, sessionStorage)
    IN  /\ StoreCalls < MaxCalls
        /\ state' = run.state
        /\ localStorage' = run.local
        /\ sessionStorage' = run.session
        /\ calls' = Append(calls, [Call("initialize", FALSE, FALSE) EXCEPT
                                      !.pc = IF run.awaits THEN "awaiting" ELSE "returned",
                                      !.stored = IF hasWindow
                                                 THEN storedToken(localStorage, sessionStorage)
                                                 ELSE NoToken])
        /\ lastAction' = Step(IF run.awaits THEN "initialize.start" ELSE "initialize.done",
                               Len(calls) + 1, "none", "")
        /\ UNCHANGED <<location, page>>
        /\ StoreFrame

\* the current-user call of initialize() settles and the action runs to its end
InitializeSettle ==
    \E i \in 1..Len(calls) : \E outcome \in MeOutcomes :
        LET run == initializeResume(state, envAuthMode, hasWindow, nowMs,
                                    localStorage, sessionStorage, outcome)
        IN  /\ calls[i].op = "initialize" /\ calls[i].pc = "awaiting"
            /\ state' = run.state
            /\ localStorage' = run.local
            /\ sessionStorage' = run.session
            /\ calls' = [calls EXCEPT ![i] = [@ EXCEPT !.pc = "returned"]]
            /\ lastAction' = Step("initialize.done", i, outcome.kind, outcome.code)
            /\ UNCHANGED <<location, page>>
            /\ StoreFrame

\* the error refreshUser reports (lines 196-199)
RefreshFailed == [code |-> "REFRESH_FAILED", message |-> "Failed to refresh user session"]

\* the store when refreshUser finds no usable token (lines 158-162)
refreshUserNoTokenState(old) ==
    set(old, [user |-> NullUser, isAuthenticated |-> FALSE, isLoading |-> FALSE])

\* the store when refreshUser has a user (lines 173-177, 182-186)
refreshUserAuthState(old, user) ==
    set(old, [user |-> user, isAuthenticated |-> TRUE, isLoading |-> FALSE])

\* the store after refreshUser's catch block (lines 192-200)
refreshUserFailedState(old) ==
    set(old, [user |-> NullUser, isAuthenticated |-> FALSE, isLoading |-> FALSE,
              error |-> RefreshFailed])

\* refreshUser(), lines 145-164: up to the await, or to the end when the store is
\* not initialized or the stored token is missing or expired; outside a browser the
\* read of localStorage throws inside the try block
refreshUserSync(old, window, ms, local, session) ==
    IF ~old.initialized
    THEN [awaits |-> FALSE, ran |-> FALSE, state |-> old, local |-> local, session |-> session]
    ELSE IF ~window
    THEN [awaits |-> FALSE, ran |-> TRUE,
          state |-> refreshUserFailedState(set(old, [isLoading |-> TRUE, error |-> NoError])),
          local |-> removeClientAuthToken(window, local, session)[1],
          session |-> removeClientAuthToken(window, local, session)[2]]
    ELSE IF storedToken(local, session).parts = 0
            \/ isTokenExpired(storedToken(local, session), ms, window)
    THEN [awaits |-> FALSE, ran |-> TRUE,
          state |-> refreshUserNoTokenState(set(old, [isLoading |-> TRUE, error |-> NoError])),
          local |-> local, session |-> session]
    ELSE [awaits |-> TRUE, ran |-> TRUE,
          state |-> set(old, [isLoading |-> TRUE, error |-> NoError]),
          local |-> local, session |-> session]

\* refreshUser(), lines 167-201: from the answer of the current-user call to the end;
\* a success answer is taken with whatever body it has
refreshUserResume(old, envValue, window, ms, local, session, outcome) ==
    LET failed == [state |-> refreshUserFailedState(old),
                   local |-> removeClientAuthToken(window, local, session)[1],
                   session |-> removeClientAuthToken(window, local, session)[2]]
        fromToken == getCurrentUser(envValue, window, ms, local, session)
    IN  IF outcome.kind = "throw" THEN failed
        ELSE IF outcome.kind = "error"
        THEN IF fromToken # NullUser
             THEN [state |-> refreshUserAuthState(old, fromToken),
                   local |-> local, session |-> session]
             ELSE failed
        ELSE [state |-> refreshUserAuthState(old, outcome.user),
              local |-> local, session |-> session]

\* refreshUser() is invoked
RefreshUser ==
    LET run == refreshUserSync(state, hasWindow, nowMs, localStorage, sessionStorage)
    IN  /\ StoreCalls < MaxCalls
        /\ state' = run.state
        /\ localStorage' = run.local
        /\ sessionStorage' = run.session
        /\ calls' = Append(calls, [Call("refreshUser", FALSE, FALSE) EXCEPT
                                      !.pc = IF run.awaits THEN "awaiting" ELSE "returned",
                                      !.stored = IF hasWindow /\ run.ran
                                                 THEN storedToken(localStorage, sessionStorage)
                                                 ELSE NoToken])
        /\ lastAction' = Step(IF run.awaits THEN "refreshUser.start" ELSE "refreshUser.done",
                               Len(calls) + 1, IF run.ran THEN "none" ELSE "skipped", "")
        /\ UNCHANGED <<location, page>>
        /\ StoreFrame

\* the current-user call of refreshUser() settles and the action runs to its end
RefreshUserSettle ==
    \E i \in 1..Len(calls) : \E outcome \in MeOutcomes :
        LET run == refreshUserResume(state, envAuthMode, hasWindow, nowMs,
                                     localStorage, sessionStorage, outcome)
        IN  /\ calls[i].op = "refreshUser" /\ calls[i].pc = "awaiting"
            /\ state' = run.state
            /\ localStorage' = run.local
            /\ sessionStorage' = run.session
            /\ calls' = [calls EXCEPT ![i] = [@ EXCEPT !.pc = "returned"]]
            /\ lastAction' = Step("refreshUser.done", i, outcome.kind, outcome.code)
            /\ UNCHANGED <<location, page>>
            /\ StoreFrame

\* setUser(user), lines 270-275
SetUser ==
    \E u \in BackendUsers \cup {NullUser} :
        /\ state' = set(state, [user |-> u, isAuthenticated |-> (u # NullUser)])
        /\ lastAction' = Step("setUser", 0, "none", "")
        /\ UNCHANGED <<calls, localStorage, sessionStorage, location, page>>
        /\ StoreFrame

\* clearError(), lines 265-267
ClearError ==
    /\ state' = set(state, [error |-> NoError])
    /\ lastAction' = Step("clearError", 0, "none", "")
    /\ UNCHANGED <<calls, localStorage, sessionStorage, location, page>>
    /\ StoreFrame

\* the store holds a user object
UserPresent(st) == st.user # NullUser /\ st.user # EmptyBody

\* checkAuth(), lines 278-281
checkAuth(st) == st.isAuthenticated /\ st.user # NullUser

NextStore ==
    \/ Login
    \/ HandleSubmit
    \/ LoginSettle
    \/ RedirectTimer
    \/ Logout
    \/ AuthLogoutSettle
    \/ Initialize
    \/ InitializeSettle
    \/ RefreshUser
    \/ RefreshUserSettle
    \/ SetUser
    \/ ClearError

SpecStore == InitStore /\ [][NextStore]_vars

\* a page load: the store is created and initialize() runs (ProtectedLayout); the
\* browser may hold a session cookie, which no script can read
InitBoot ==
    /\ envAuthMode \in AuthModeEnv
    /\ GuardIdle
    /\ RbacIdle
    /\ CodecIdle
    /\ HttpIdle
    /\ NavIdle
    /\ hasWindow = TRUE
    /\ nowMs \in StoreClock
    /\ \E pair \in LeftOverStorage : localStorage = pair[1] /\ sessionStorage = pair[2]
    /\ location = ""
    /\ sessionCookie \in {"none", "valid"}
    /\ StoreIdle

NextBoot ==
    \/ Initialize
    \/ InitializeSettle

SpecBoot == InitBoot /\ [][NextBoot]_vars

\* the current-user request of initialize is bounded by the client's timeout
\* (types.ts lines 392-394), so its await always resumes
SpecStoreFair == SpecStore /\ WF_vars(InitializeSettle)

(***************************************************************************)
(* Navigation: a URL is requested, the edge middleware answers, the page   *)
(* is shown, and the protected layout (ProtectedLayout) runs its effects   *)
(* against the session store. A reload creates the store anew from what    *)
(* persist kept (the initialized flag).                                    *)
(***************************************************************************)
\* requests one navigation chain is followed for
MaxHops == 6

\* page reloads followed
MaxReloads == 1

\* the URLs a user opens
NavPaths == {"/en/login", "/en/dashboard", "/zh-TW/users", "/en/about"}

\* the cookies the browser sends: the BFF session cookie when it holds one
cookieRequest(pathname, cookie) ==
    [pathname |-> pathname,
     access_token |-> IF cookie = "valid" THEN JwtCredential(MaxExp) ELSE Absent,
     session_token |-> Absent, authorization |-> Absent, now |-> 0]

\* the pages ProtectedLayout wraps: those under a protected route
underProtectedLayout(pathname) ==
    \E route \in PROTECTED_ROUTES : startsWith(pathWithoutLocale(pathname), route)

\* what ProtectedLayout returns (lines 37-59): the spinner, nothing, or the page
protectedLayoutView(st) ==
    IF ~st.initialized \/ st.isLoading THEN "loading"
    ELSE IF ~st.isAuthenticated THEN "null"
    ELSE "children"

\* the condition of the redirect effect (line 32)
layoutRedirects(st) == st.initialized /\ ~st.isLoading /\ ~st.isAuthenticated

\* the condition of the initialize effect (line 25)
layoutInitializes(st) == ~st.initialized

\* the store a page load creates: the initial state with the persisted flag
\* (part_004 lines 62-67, 283-289)
rehydrate(old) == [InitialState EXCEPT !.initialized = old.initialized]

\* one request of a chain: the URL and the store it was issued under
Visit(url, st) == [url |-> url, state |-> st]

InitNav ==
    /\ envAuthMode \in AuthModeEnv
    /\ GuardIdle
    /\ RbacIdle
    /\ CodecIdle
    /\ HttpIdle
    /\ hasWindow = TRUE
    /\ nowMs \in StoreClock
    /\ IF envAUTH_MODE(envAuthMode) = "DIRECT"
       THEN /\ \E pair \in LeftOverStorage : localStorage = pair[1] /\ sessionStorage = pair[2]
            /\ sessionCookie = "none"
       ELSE /\ localStorage = NoStorage /\ sessionStorage = NoStorage
            /\ sessionCookie \in {"none", "valid"}
    /\ location = ""
    /\ StoreIdle
    /\ \E url \in NavPaths :
          nav = [pending |-> url, chain |-> <<Visit(url, InitialState)>>, reloads |-> 0]

\* the pending URL is requested and the middleware answers: a redirect makes the
\* browser request the new URL, anything else shows the page
Request ==
    LET req == cookieRequest(nav.pending, sessionCookie)
        res == middleware(req, envAuthMode)
    IN  /\ nav.pending # ""
        /\ res.kind = "redirect" => Len(nav.chain) < MaxHops
        /\ request' = req
        /\ response' = res
        /\ IF res.kind = "redirect"
           THEN /\ nav' = [nav EXCEPT !.pending = res.path,
                                      !.chain = Append(@, Visit(res.path, state))]
                /\ UNCHANGED location
           ELSE /\ nav' = [nav EXCEPT !.pending = ""]
                /\ location' = req.pathname
        /\ lastAction' = Step("request", 0, res.kind, "")
        /\ UNCHANGED <<envAuthMode, rbacVars, codecVars, httpVars, hasWindow, nowMs,
                       localStorage, sessionStorage, sessionCookie, state, calls, page>>

\* some initialize() call is suspended at its await
InitializePending ==
    \E i \in 1..Len(calls) : calls[i].op = "initialize" /\ calls[i].pc = "awaiting"

\* ProtectedLayout, lines 24-28: the effect that runs initialize()
LayoutInitialize ==
    /\ nav.pending = ""
    /\ underProtectedLayout(location)
    /\ layoutInitializes(state)
    /\ ~InitializePending
    /\ Initialize

\* ProtectedLayout, lines 31-35: the effect that replaces the URL with the login page
LayoutRedirect ==
    /\ nav.pending = ""
    /\ underProtectedLayout(location)
    /\ layoutRedirects(state)
    /\ Len(nav.chain) < MaxHops
    /\ nav' = [nav EXCEPT
                  !.pending = "/" \o getLocaleFromPathname(location) \o "/login",
                  !.chain = Append(@, Visit("/" \o getLocaleFromPathname(location) \o "/login",
                                            state))]
    /\ lastAction' = Step("layout.redirect", 0, "none", "")
    /\ UNCHANGED <<envAuthMode, guardVars, rbacVars, codecVars, httpVars, browserVars,
                   state, calls, page>>

\* the user reloads the page shown: pending calls die with the old page, the store
\* is created anew, the same URL is requested
Reload ==
    /\ nav.pending = ""
    /\ location # ""
    /\ nav.reloads < MaxReloads
    /\ state' = rehydrate(state)
    /\ calls' = <<>>
    /\ nav' = [pending |-> location, chain |-> <<Visit(location, rehydrate(state))>>,
               reloads |-> nav.reloads + 1]
    /\ lastAction' = Step("reload", 0, "none", "")
    /\ UNCHANGED <<envAuthMode, guardVars, rbacVars, codecVars, httpVars, browserVars, page>>

NextNav ==
    \/ Request
    \/ LayoutInitialize
    \/ InitializeSettle
    \/ LayoutRedirect
    \/ Reload

SpecNav == InitNav /\ [][NextNav]_vars

(***************************************************************************)
(* The HTTP gateway: HttpClient.makeRequest (lib/http) with its retry loop *)
(* and ApiClient.request (lib/api). One call is followed from its start to *)
(* the settling of the promise it returns; the transport decides how each  *)
(* fetch ends, and the timer and the caller decide when a signal aborts.   *)
(***************************************************************************)
MaxRetries == 3

\* this.defaultRetries
DefaultRetries == 3

\* Math.pow(2, attempt) * 1000
BackoffBaseMs == 1000

backoffDelay(attempt) == (2 ^ attempt) * BackoffBaseMs

\* how a fetch can end while its signal is not aborted: a 2xx response with a JSON body,
\* a 2xx response whose body does not parse, a 401, another non-2xx status, a non-2xx
\* status whose message contains "Authentication failed", or a network failure
FetchOutcomes == {"ok", "badjson", "401", "500", "authmsg", "network"}

\* the fetch got a Response (it did not reject)
IsResponse(outcome) == outcome \in {"ok", "badjson", "401", "500", "authmsg"}

\* the signal the pending fetch was given (part_007 line 126; types.ts line 404)
fetchSignalAborted(h) ==
    IF h.client = "api" /\ h.callerSignal THEN h.callerAborted ELSE h.aborted

\* the error makeRequest's try block throws for a fetch outcome (part_007 lines 124-144)
thrownError(outcome) ==
    CASE outcome = "abort" -> "AbortError"
      [] outcome = "network" -> "NetworkError"
      [] outcome = "badjson" -> "SyntaxError"
      [] outcome = "401" -> "Authentication failed"
      [] outcome = "authmsg" -> "Authentication failed (message)"
      [] OTHER -> "HttpError"

\* the catch block's test for errors that are not retried (part_007 lines 150-153)
noRetry(err) ==
    err \in {"AbortError", "Authentication failed", "Authentication failed (message)"}

\* handleAuthError(): the pair <<localStorage, sessionStorage>> afterwards (lines 173-176)
handleAuthError(window, local, session) ==
    IF ~window THEN <<local, session>>
    ELSE <<removeItem(local, "access_token"), removeItem(session, "access_token")>>

\* mutant: only an abort stops the retry loop
makeRequestStep_RetriesAfter401(h, outcome) ==
    LET afterFetch == [h EXCEPT !.responses = Append(@, outcome),
                                !.timerArmed = IF IsResponse(outcome) THEN FALSE ELSE @,
                                !.authErrors = IF outcome = "401" THEN @ + 1 ELSE @]
    IN  IF outcome = "ok"
        THEN [afterFetch EXCEPT !.pc = "done", !.settled = "resolved", !.result = "data"]
        ELSE IF thrownError(outcome) = "AbortError" \/ h.attempt >= h.retries
        THEN [afterFetch EXCEPT !.pc = "done", !.timerArmed = FALSE,
                                !.settled = "rejected", !.result = thrownError(outcome)]
        ELSE [afterFetch EXCEPT !.pc = "sleeping",
                                !.delays = Append(@, backoffDelay(h.attempt))]

\* makeRequest, lines 124-166: one fetch has ended with `outcome`
makeRequestStep(h, outcome) ==
    LET afterFetch == [h EXCEPT !.responses = Append(@, outcome),
                                !.timerArmed = IF IsResponse(outcome) THEN FALSE ELSE @,
                                !.authErrors = IF outcome = "401" THEN @ + 1 ELSE @]
    IN  IF outcome = "ok"
        THEN [afterFetch EXCEPT !.pc = "done", !.settled = "resolved", !.result = "data"]
        ELSE IF noRetry(thrownError(outcome)) \/ h.attempt >= h.retries
        THEN [afterFetch EXCEPT !.pc = "done", !.timerArmed = FALSE,
                                !.settled = "rejected", !.result = thrownError(outcome)]
        ELSE [afterFetch EXCEPT !.pc = "sleeping",
                                !.delays = Append(@, backoffDelay(h.attempt))]

\* ApiClient.request with handleResponse, types.ts lines 350-424: the fetch has ended
requestStep(h, outcome) ==
    LET afterFetch == [h EXCEPT !.responses = Append(@, outcome), !.timerArmed = FALSE,
                                !.pc = "done"]
    IN  CASE outcome = "ok" ->
                [afterFetch EXCEPT !.settled = "resolved", !.result = "success"]
          [] outcome = "badjson" ->
                [afterFetch EXCEPT !.settled = "resolved", !.result = "PARSE_ERROR"]
          [] outcome \in {"401", "500", "authmsg"} ->
                [afterFetch EXCEPT !.settled = "resolved", !.result = "HTTP_ERROR"]
          [] outcome = "abort" ->
                [afterFetch EXCEPT !.settled = "rejected", !.result = "TIMEOUT"]
          [] OTHER ->
                [afterFetch EXCEPT !.settled = "rejected", !.result = "NETWORK_ERROR"]

\* the methods of get, post, put, patch and delete (part_007 lines 186-215)
HttpMethods == {"GET", "POST", "PUT", "PATCH", "DELETE"}

\* the methods HTTP defines as idempotent
IdempotentMethods == {"GET", "PUT", "DELETE"}

\* the calls followed: HttpClient with any method and retry count, ApiClient with or without a
\* caller-supplied signal
HttpCalls ==
    {[HttpCall("http", n, FALSE) EXCEPT !.method = m] : n \in 0..MaxRetries, m \in HttpMethods}
    \cup {HttpCall("api", 0, cs) : cs \in BOOLEAN}

\* at most an access_token in one of the stores
HttpStorage ==
    {<<NoStorage, NoStorage>>,
     <<[access_token |-> Jwt(MaxExp, "u1", <<"admin">>), refresh_token |-> NoToken], NoStorage>>,
     <<NoStorage, [access_token |-> Jwt(MaxExp, "u1", <<"admin">>), refresh_token |-> NoToken]>>}

InitHttp ==
    /\ envAuthMode \in AuthModeEnv
    /\ GuardIdle
    /\ RbacIdle
    /\ CodecIdle
    /\ StoreIdle
    /\ hasWindow \in BOOLEAN
    /\ nowMs = 0
    /\ \E pair \in HttpStorage :
          /\ localStorage = (IF hasWindow THEN pair[1] ELSE NoStorage)
          /\ sessionStorage = (IF hasWindow THEN pair[2] ELSE NoStorage)
    /\ location = ""
    /\ sessionCookie = "none"
    /\ NavIdle
    /\ http \in HttpCalls

HttpFrame ==
    UNCHANGED <<envAuthMode, guardVars, rbacVars, codecVars, storeVars, navVars, hasWindow, nowMs,
                sessionCookie>>

\* makeRequest lines 88-127 / request lines 383-405: the timer is set and the first
\* fetch is issued
StartRequest ==
    /\ http.pc = "idle"
    /\ http' = [http EXCEPT !.pc = "fetching", !.timerArmed = TRUE, !.fetches = 1]
    /\ UNCHANGED <<localStorage, sessionStorage, location>>
    /\ HttpFrame

\* the timer callback runs: controller.abort()
TimerFires ==
    /\ http.timerArmed
    /\ http' = [http EXCEPT !.timerArmed = FALSE, !.aborted = TRUE]
    /\ UNCHANGED <<localStorage, sessionStorage, location>>
    /\ HttpFrame

\* the caller aborts the signal it passed
CallerAborts ==
    /\ http.callerSignal /\ ~http.callerAborted
    /\ http.pc \in {"fetching"}
    /\ http' = [http EXCEPT !.callerAborted = TRUE]
    /\ UNCHANGED <<localStorage, sessionStorage, location>>
    /\ HttpFrame

\* the pending fetch of makeRequest ends; on a 401 handleAuthError runs (lines 135-137)
FetchSettles ==
    \E outcome \in FetchOutcomes \cup {"abort"} :
        /\ http.pc = "fetching" /\ http.client = "http"
        /\ (outcome = "abort") = fetchSignalAborted(http)
        /\ http' = makeRequestStep(http, outcome)
        /\ IF outcome = "401"
           THEN /\ localStorage' = handleAuthError(hasWindow, localStorage, sessionStorage)[1]
                /\ sessionStorage' = handleAuthError(hasWindow, localStorage, sessionStorage)[2]
                /\ location' = IF hasWindow THEN "/login" ELSE location
           ELSE UNCHANGED <<localStorage, sessionStorage, location>>
        /\ HttpFrame

\* the backoff wait ends and the loop issues the next fetch (lines 122-127, 160)
BackoffElapses ==
    /\ http.pc = "sleeping"
    /\ http' = [http EXCEPT !.pc = "fetching", !.attempt = @ + 1, !.fetches = @ + 1]
    /\ UNCHANGED <<localStorage, sessionStorage, location>>
    /\ HttpFrame

\* the pending fetch of ApiClient.request ends
ApiFetchSettles ==
    \E outcome \in FetchOutcomes \cup {"abort"} :
        /\ http.pc = "fetching" /\ http.client = "api"
        /\ (outcome = "abort") = fetchSignalAborted(http)
        /\ http' = requestStep(http, outcome)
        /\ UNCHANGED <<localStorage, sessionStorage, location>>
        /\ HttpFrame

NextHttp ==
    \/ StartRequest
    \/ TimerFires
    \/ CallerAborts
    \/ FetchSettles
    \/ BackoffElapses
    \/ ApiFetchSettles

SpecHttp == InitHttp /\ [][NextHttp]_vars

(***************************************************************************)
(* Session store properties                                                *)
(***************************************************************************)
\* a login call has just ended in failure
LoginJustFailed ==
    lastAction.name = "login.settle" /\ lastAction.outcome \in {"error", "nobody", "throw"}

\* state.error is a structured error: a code and a message
ErrorPopulated == state.error.code # "null" /\ state.error.message # ""

\* C10: whenever a login call fails (error result, missing body, transport error)
\* the store ends with isAuthenticated = false, a populated error (code LOGIN_FAILED
\* when the backend gives that code or none) and isLoading = false, whatever the
\* store held before the call.
C10_FailedLoginLeavesUnauthenticated ==
    LoginJustFailed =>
        /\ state.isAuthenticated = FALSE
        /\ ErrorPopulated
        /\ (lastAction.outcome = "error" /\ lastAction.code \in {"", "LOGIN_FAILED"})
               => state.error.code = "LOGIN_FAILED"
        /\ state.isLoading = FALSE

\* a login call has just resolved
LoginJustSettled == lastAction.name = "login.settle"

\* the login call that just resolved was made by the login form
SettledViaForm == LoginJustSettled /\ calls[lastAction.id].viaForm

\* C11: login never throws for an expected failure: whatever the backend call does,
\* it resolves with {success: true} or {success: false, error} with a structured error,
\* and the login form then shows an inline error taken from that structured error
\* (and shows success only for a successful login).
C11_LoginResolvesStructuredAndFormShowsIt ==
    LoginJustSettled =>
        /\ lastAction.result.success = (lastAction.outcome = "success")
        /\ lastAction.result.success => lastAction.result.error = NoError
        /\ ~lastAction.result.success =>
               lastAction.result.error.code # "null" /\ lastAction.result.error.message # ""
        /\ SettledViaForm =>
               /\ page.success = lastAction.result.success
               /\ ~lastAction.result.success => page.error = lastAction.result.error.message

\* the store and the storage after initialize() ran on a new store with no token stored
FreshlyInitialized ==
    initializeSync(InitialState, TRUE, nowMs, NoStorage, NoStorage)

\* logout has just run, directly after a login call that resolved with success
LogoutRightAfterLogin == lastAction.name = "logout" /\ lastAction.outcome = "after-login"

SameAsFreshlyInitialized ==
    /\ state = FreshlyInitialized.state
    /\ localStorage = FreshlyInitialized.local
    /\ sessionStorage = FreshlyInitialized.session

\* C12 as stated: a successful login followed immediately by logout leaves the store
\* (user, isAuthenticated, isLoading, error, initialized) and both token stores as
\* those of a store freshly initialized with no token and never logged in.
C12_LoginLogoutIsFreshlyInitialized ==
    LogoutRightAfterLogin => SameAsFreshlyInitialized

\* C12 amended: the same, for a store on which initialize had completed before the
\* login; login and logout never set `initialized`, so a store that was never
\* initialized ends with initialized = false.
C12_LoginLogoutOfInitializedStoreIsFresh ==
    (LogoutRightAfterLogin /\ state.initialized) => SameAsFreshlyInitialized

C12_Witness ==
    /\ LogoutRightAfterLogin
    /\ state.initialized
    /\ envAuthMode = "DIRECT"
    /\ \E i \in 1..Len(calls) : calls[i].op = "initialize" /\ calls[i].pc = "returned"

\* the token the login that just succeeded was issued (see LoginOutcomes)
IssuedToken == Jwt(MaxExp, state.user.id, state.user.roles)

\* the issued token sits in the store the remember flag selects and the other holds none
TokenWhereRememberSays ==
    IF calls[lastAction.id].remember
    THEN localStorage.access_token = IssuedToken /\ sessionStorage.access_token = NoToken
    ELSE sessionStorage.access_token = IssuedToken /\ localStorage.access_token = NoToken

BothStoresHoldToken ==
    localStorage.access_token # NoToken /\ sessionStorage.access_token # NoToken

LogoutEnded ==
    \/ lastAction.name = "logout"
    \/ lastAction.name = "authLogout.settle" /\ lastAction.code = "after-logout"

NoStoredTokens == localStorage = NoStorage /\ sessionStorage = NoStorage

\* C14: logout always ends with no access_token and no refresh_token in localStorage or
\* sessionStorage, user absent, isAuthenticated = false and isLoading = false, whether
\* the backend logout request succeeds, fails or never answers.
C14_LogoutClearsEverything ==
    LogoutEnded =>
        /\ NoStoredTokens
        /\ state.user = NullUser
        /\ state.isAuthenticated = FALSE
        /\ state.isLoading = FALSE

C14_Witness ==
    /\ lastAction.name = "authLogout.settle"
    /\ lastAction.code = "after-logout"
    /\ lastAction.outcome = "throw"
    /\ \E i \in 1..Len(calls) : calls[i].op = "login" /\ calls[i].pc = "awaiting"

\* an initialize call has just run to its end
InitializeJustDone == lastAction.name = "initialize.done"

\* the token is past its validity: usable only while current time < expiry
PastExpiry(token, ms) ==
    decodeToken(token, TRUE).decoded /\ token.hasExp /\ nowSeconds(ms) >= token.exp

\* the answers of the current-user call that agree with the run that just ended
SameAnswers ==
    {o \in MeOutcomes : lastAction.outcome \in {"none", o.kind}
                          /\ (o.kind = "success" => o.user = state.user)}

\* initialize() run again from here, the backend answering `outcome` if asked
initializeAgain(outcome) ==
    LET first == initializeSync(state, hasWindow, nowMs, localStorage, sessionStorage)
    IN  IF first.awaits
        THEN initializeResume(first.state, envAuthMode, hasWindow, nowMs,
                              first.local, first.session, outcome)
        ELSE [state |-> first.state, local |-> first.local, session |-> first.session]

InitializeEndsInitialized == InitializeJustDone => state.initialized /\ ~state.isLoading

InitializeWithoutTokenEndsUnauthenticated ==
    (InitializeJustDone /\ (calls[lastAction.id].stored = NoToken
                             \/ PastExpiry(calls[lastAction.id].stored, nowMs)))
        => ~state.isAuthenticated /\ state.user = NullUser

\* the storage still holds what the run that just ended read, or the run emptied it
StorageAsRead ==
    \/ storedToken(localStorage, sessionStorage) = calls[lastAction.id].stored
    \/ lastAction.outcome = "none"

InitializeIdempotent ==
    (InitializeJustDone /\ StorageAsRead) =>
        \A o \in SameAnswers :
            /\ initializeAgain(o).state = state
            /\ initializeAgain(o).local = localStorage
            /\ initializeAgain(o).session = sessionStorage

InitializeEventuallyReturns ==
    \A i \in 1..(MaxCalls + MaxLogoutFetches) :
        (i <= Len(calls) /\ calls[i].op = "initialize" /\ calls[i].pc = "awaiting")
            ~> (i <= Len(calls) /\ calls[i].pc = "returned")

\* C15: every initialize call that completes in the browser leaves initialized = true
\* and isLoading = false on every path (no token, expired token, current-user call
\* succeeding, failing or throwing, undecodable token); with the token absent or
\* expired it ends unauthenticated; and run again under the same storage and backend
\* answers it yields the same state. (That every call does complete is
\* InitializeEventuallyReturns under SpecStoreFair.)
C15_InitializeCompletesAndIsIdempotent ==
    /\ InitializeEndsInitialized
    /\ InitializeWithoutTokenEndsUnauthenticated
    /\ InitializeIdempotent

\* the current-user call did not fail: it answered with the user, or was never made
CurrentUserCallNotFailing == lastAction.outcome \in {"none", "success"}

\* C16: in BFF mode, with a valid session cookie and the backend's current-user call
\* succeeding, initialize ends with isAuthenticated = true and the user populated, as
\* it does in DIRECT mode with a valid stored token.
C16_BffInitializeAuthenticatesFromCookie ==
    (InitializeJustDone /\ CurrentUserCallNotFailing
        /\ envAUTH_MODE(envAuthMode) = "BFF" /\ sessionCookie = "valid")
        => state.isAuthenticated /\ state.user # NullUser

(***************************************************************************)
(* HTTP gateway properties                                                 *)
(***************************************************************************)
\* the promise of the gateway call has settled
CallSettled == http.pc = "done"

\* the discriminated results: success, or an error result with a code
ResultKinds == {"data", "success", "PARSE_ERROR", "HTTP_ERROR"}

\* C17: whatever the transport does (network failure, timeout/abort, non-2xx status,
\* unparsable body) the promise a gateway call returns resolves with a success result
\* or an error result carrying code and message; it never rejects.
C17_GatewayNeverRejects ==
    CallSettled => http.settled = "resolved" /\ http.result \in ResultKinds

\* the first fetch of an HttpClient call was answered 401
FirstAttemptGot401 ==
    http.client = "http" /\ Len(http.responses) >= 1 /\ http.responses[1] = "401"

\* C18: an HttpClient call with N retries whose first attempt is answered 401 makes no
\* further attempt, ends at once (no backoff wait) with the authentication failure, and
\* has run the token-clearing side effect exactly once: in the browser no access_token
\* is left in either store and the location is the login page.
C18_NoRetryAfter401 ==
    FirstAttemptGot401 =>
        /\ http.fetches = 1
        /\ http.delays = <<>>
        /\ CallSettled /\ http.result = "Authentication failed"
        /\ http.authErrors = 1
        /\ hasWindow => /\ localStorage.access_token = NoToken
                        /\ sessionStorage.access_token = NoToken
                        /\ location = "/login"

C18_Witness ==
    /\ FirstAttemptGot401
    /\ http.retries = DefaultRetries
    /\ hasWindow
    /\ envAuthMode = "DIRECT"
    /\ location = "/login"

\* the pending fetch listens to the controller the timeout aborts, and the timeout is
\* still to fire or has fired
AttemptBounded ==
    /\ ~(http.client = "api" /\ http.callerSignal)
    /\ http.timerArmed \/ http.aborted

\* C19: every attempt of a gateway call (the retries too, and calls given the caller's
\* own abort signal) is cancelled when the timeout elapses, and a call whose timeout
\* elapsed is reported as a timeout error.
C19_EveryAttemptBoundedByTimeout ==
    /\ http.pc = "fetching" => AttemptBounded
    /\ (CallSettled /\ http.aborted) => http.result \in {"AbortError", "TIMEOUT"}

(***************************************************************************)
(* Permission hook properties                                              *)
(***************************************************************************)
\* C20: for the signed-in user, usePermission(p) returns true exactly when
\* hasPermission(user, p) over the static role-permission table is true (an active
\* operator gets update_user, a viewer does not, an inactive user gets nothing).
C20_UsePermissionAgreesWithTable ==
    rbacResult.fn \in {"usePermission", "usePermissionEnhanced"} =>
        rbacResult.bool = hasPermission(rbacUser, rbacResult.arg[1])

(***************************************************************************)
(* Concurrent session actions                                              *)
(***************************************************************************)
\* a step in which a login call settles right after another login call settled:
\* the second was in flight while the first completed
OverlappingLoginsEnd ==
    /\ lastAction.name = "login.settle"
    /\ lastAction'.name = "login.settle"
    /\ lastAction'.id # lastAction.id

\* the session after the step is authenticated as the user the call that completed
\* first had put there
KeepsEarlierLogin == state'.isAuthenticated /\ state'.user = state.user

\* C21: two login calls that overlap leave the session store and the token storage
\* as the call completing last leaves them: not loading, the error of that call,
\* and when that call failed while the other succeeded, not the other call's
\* authenticated user together with this call's error; on success the stored token
\* is the one of the user in the store.
C21_OverlappingLoginsLastOneWins ==
    [][OverlappingLoginsEnd =>
          /\ ~state'.isLoading
          /\ state'.error = lastAction'.result.error
          /\ lastAction'.result.success =>
                /\ state'.isAuthenticated
                /\ envAUTH_MODE(envAuthMode) = "DIRECT" =>
                       storedToken(localStorage', sessionStorage').sub = state'.user.id
          /\ (~lastAction'.result.success /\ lastAction.result.success)
                => ~KeepsEarlierLogin]_vars

\* some session-mutating action is suspended at its await
ActionInFlight ==
    \E i \in 1..Len(calls) :
        calls[i].op \in {"login", "initialize", "refreshUser"} /\ calls[i].pc = "awaiting"

\* the step invokes login, logout, initialize or refreshUser
ActionInvoked ==
    \/ lastAction'.name \in {"login.start", "initialize.start", "refreshUser.start"}
    \/ lastAction'.name = "logout" /\ lastAction' # lastAction
    \/ lastAction'.name \in {"initialize.done", "refreshUser.done"} /\ Len(calls') > Len(calls)

\* the step is the late answer of a login that was pending when logout ran
LoginAnswersAfterLogout == lastAction.name = "logout" /\ lastAction'.name = "login.settle"

\* C22: login, logout, initialize and refreshUser never interleave their writes: an
\* action invoked while another is in flight writes nothing at that point (it is
\* queued or a no-op), and a logout issued during a pending login is not undone by
\* the login's late response.
C22_SessionActionsDoNotInterleave ==
    [][/\ (ActionInFlight /\ ActionInvoked) =>
              /\ state' = state
              /\ localStorage' = localStorage
              /\ sessionStorage' = sessionStorage
       /\ LoginAnswersAfterLogout => ~state'.isAuthenticated]_vars

(***************************************************************************)
(* Navigation properties                                                   *)
(***************************************************************************)
\* the decision of the middleware: admit, or redirect to the login or dashboard page
edgeDecision(res) ==
    IF res.kind # "redirect" THEN "admit"
    ELSE IF endsWith(res.path, "/login") THEN "login"
    ELSE "dashboard"

\* the decision of the client-side check for a page: ProtectedLayout redirects to
\* the login page or shows the page; no client code redirects to the dashboard
clientDecision(pathname, st) ==
    IF underProtectedLayout(pathname) /\ layoutRedirects(st) THEN "login" ELSE "admit"

\* the store has settled: the client-side check is past its loading state
StoreSettled == protectedLayoutView(state) # "loading"

\* the middleware and the store hold the same authentication state for the request
SameAuthState == isAuthenticated(request, envAuthMode) = state.isAuthenticated

\* C23: for every path class, authentication state and auth mode the middleware's
\* decision (admit, redirect to login, redirect to dashboard) equals the decision
\* the client-side protected layout takes for the same inputs.
C23_EdgeAndClientGuardAgree ==
    (Answered /\ StoreSettled /\ SameAuthState)
        => edgeDecision(response) = clientDecision(request.pathname, state)

(***************************************************************************)
(* Retry properties of the gateway                                         *)
(***************************************************************************)
\* every fetch of the call so far failed with a network error
AllNetworkErrors == \A k \in 1..Len(http.responses) : http.responses[k] = "network"

\* the waits 2^k seconds for k = 0..n-1, in ms
ExpectedDelays(n) == [k \in 1..n |-> (2 ^ (k - 1)) * MsPerSecond]

\* the call was re-issued: more than one fetch was made for it
Reissued == http.fetches > 1

\* C24: a gateway call with retry bound N makes at most N+1 attempts; when every
\* attempt fails with a network error it makes exactly N+1 attempts, waits 1s, 2s,
\* 4s, ... after the failed attempts but the last, and surfaces the last error; only
\* calls with an idempotent method are re-issued.
C24_BoundedBackoffIdempotentRetry ==
    http.client = "http" =>
        /\ http.fetches <= http.retries + 1
        /\ (CallSettled /\ AllNetworkErrors) =>
              /\ http.fetches = http.retries + 1
              /\ http.delays = ExpectedDelays(http.retries)
              /\ http.settled = "rejected" /\ http.result = thrownError("network")
        /\ Reissued => http.method \in IdempotentMethods

(***************************************************************************)
(* refreshUser properties                                                  *)
(***************************************************************************)
\* the step ends a refreshUser call on an initialized store, and the storage still
\* held the token the call had read
RefreshEnds ==
    /\ lastAction'.name = "refreshUser.done" /\ lastAction'.outcome # "skipped"
    /\ storedToken(localStorage, sessionStorage) = calls'[lastAction'.id].stored

\* the token the call read is one whose validity has not ended
ReadValidToken ==
    /\ decodeToken(storedToken(localStorage, sessionStorage), TRUE).decoded
    /\ ~PastExpiry(storedToken(localStorage, sessionStorage), nowMs)

\* the token the call read is absent or expired
ReadNoOrExpiredToken ==
    \/ storedToken(localStorage, sessionStorage) = NoToken
    \/ PastExpiry(storedToken(localStorage, sessionStorage), nowMs)

\* the current-user fetch succeeded, or the stored token yields a user locally
FetchedOrDecoded ==
    \/ lastAction'.outcome \in {"success", "nobody"}
    \/ getCurrentUser(envAuthMode, hasWindow, nowMs, localStorage, sessionStorage) # NullUser

\* C25: refreshUser on an initialized store ends with isLoading = false and: with the
\* stored token absent or expired the session is cleared; with a valid token and
\* the current-user fetch succeeding or the token decoding locally the session is
\* authenticated with that user; otherwise the stored tokens are removed, the
\* session is unauthenticated and the error is REFRESH_FAILED.
C25_RefreshUserThreeOutcomes ==
    [][RefreshEnds =>
          /\ ~state'.isLoading
          /\ ReadNoOrExpiredToken => state'.user = NullUser /\ ~state'.isAuthenticated
          /\ (ReadValidToken /\ FetchedOrDecoded)
                => state'.isAuthenticated /\ UserPresent(state')
          /\ (ReadValidToken /\ ~FetchedOrDecoded)
                => /\ localStorage' = NoStorage /\ sessionStorage' = NoStorage
                   /\ ~state'.isAuthenticated /\ state'.user = NullUser
                   /\ state'.error = RefreshFailed]_vars

(***************************************************************************)
(* Reload and redirect chains                                              *)
(***************************************************************************)
\* the storage holds a token that decodes and whose validity has not ended
HoldsValidToken ==
    /\ decodeToken(storedToken(localStorage, sessionStorage), TRUE).decoded
    /\ ~PastExpiry(storedToken(localStorage, sessionStorage), nowMs)

\* a protected page was reloaded in direct mode with a valid token in storage
ReloadedProtectedPage ==
    /\ envAUTH_MODE(envAuthMode) = "DIRECT"
    /\ nav.reloads > 0
    /\ underProtectedLayout(nav.chain[1].url)
    /\ HoldsValidToken

\* the chain since the reload has led to the login page
SentToLogin == \E k \in 1..Len(nav.chain) : endsWith(nav.chain[k].url, "/login")

\* C26: in direct mode a user with a valid unexpired token in storage who reloads a
\* protected page is never redirected to the login page (the layout initializes
\* again and renders the page), although only the initialized flag was persisted.
C26_ReloadWithValidTokenIsAdmitted ==
    ReloadedProtectedPage => ~SentToLogin

\* the chain requests a URL it has already requested under the same store: the
\* guards decide on nothing else, so from there the chain repeats for ever
Revisit ==
    \E j, k \in 1..Len(nav.chain) : j < k /\ nav.chain[j] = nav.chain[k]

\* C27: in BFF mode with a session cookie present the chain of redirects issued by
\* the middleware (login to dashboard) and by the protected layout (dashboard to
\* login) is finite: the browser is never bounced between the two pages for ever.
C27_BffRedirectChainIsFinite ==
    (envAUTH_MODE(envAuthMode) = "BFF" /\ sessionCookie = "valid") => ~Revisit

(***************************************************************************)
(* Store invariant                                                         *)
(***************************************************************************)
\* C28: in every reachable state of the session store, after any sequence of login,
\* logout, initialize, refreshUser, setUser and clearError, isAuthenticated = true
\* implies that a user is present, so checkAuth() equals isAuthenticated; also when
\* the current-user endpoint answers success with an empty body.
C28_AuthenticatedImpliesUser ==
    /\ state.isAuthenticated => UserPresent(state)
    /\ checkAuth(state) = state.isAuthenticated

(***************************************************************************)
(* Exclusions of the route guard                                           *)
(***************************************************************************)
\* the path left after the locale prefix starts with a protected route
UnderProtectedPrefix ==
    \E route \in PROTECTED_ROUTES : startsWith(pathWithoutLocale(request.pathname), route)

\* C29: in BFF mode no unauthenticated request whose locale-stripped path starts
\* with a protected prefix is passed through by the middleware, whatever the rest
\* of the path is: the exclusion of API, framework and static-asset paths exempts
\* no path under a protected route (such as /en/reports/export.js or /en/users/a.css).
C29_NoExemptionUnderProtectedPrefix ==
    (Answered /\ BffMode /\ ~GuardAuthenticated /\ UnderProtectedPrefix) => ~PassedThrough

(***************************************************************************)
(* Tokens that cannot prove they are unexpired                             *)
(***************************************************************************)
\* the token of the last query is malformed, or decodes to a payload without exp
CannotProveUnexpired ==
    /\ codecResult.token.parts # 0
    /\ \/ ~decodeToken(codecResult.token, TRUE).decoded
       \/ ~codecResult.token.hasExp

\* C30: a token that cannot prove it is unexpired is never accepted: for every
\* malformed token and every token whose payload carries no numeric exp,
\* isTokenExpired returns true and isAuthenticated() / getCurrentUser() report no
\* session (none of the queries throws).
C30_UnprovableTokenIsRejected ==
    CannotProveUnexpired =>
        /\ codecResult.fn = "isTokenExpired" => codecResult.bool = TRUE
        /\ codecResult.fn = "isAuthenticated" => codecResult.bool = FALSE
        /\ codecResult.fn = "getCurrentUser" => codecResult.user = NullUser

=============================================================================
